---- MODULE Spec2Model ----
(***************************************************************************)
(* cato-logger: the event ingestion-and-delivery pipeline.                 *)
(*                                                                         *)
(* One process (cmd main) starts up (configuration validation, pre-flight  *)
(* checks, Marker Manager, syslog Writer), runs one cycle immediately and  *)
(* then one cycle per ticker tick.  A cycle is Processor.ProcessEvents     *)
(* wrapped by Processor.ProcessWithRecovery.  The marker file outlives the *)
(* process; everything else is rebuilt at every start.                     *)
(*                                                                         *)
(* Time is counted in seconds.  Strings of the program are strings here.   *)
(***************************************************************************)
EXTENDS Integers, Sequences, FiniteSets, TLC

(***************************************************************************)
(* Bounds of the model.                                                    *)
(***************************************************************************)
\* cycles one process run may start (caps Stats.TotalAPIRequests)
MaxCycles == 2
\* records in one page returned by the API
MaxPageEvents == 2
\* process starts after the first one
MaxRestarts == 1
\* cycles of one process run where the backoff sequence is followed
MaxBackoffCycles == 11
\* the largest maxAttempts FetchWithRetry is called with on its own
MaxRetryAttempts == 2
\* characters in the value of an event field given to the Formatter
MaxValueLen == 1
\* characters in a value given to sanitizeValue on its own
MaxSanitizeLen == 2
\* accounts in one response, and records of one account
MaxAccounts == 2
MaxAccountRecords == 2

(***************************************************************************)
(* Program constants.                                                      *)
(***************************************************************************)
\* Writer.maxReconnects
MaxReconnects == 10
\* Writer.reconnectDelay, seconds
ReconnectDelay == 5
\* backoffDelay := 1 * time.Second
BaseBackoff == 1
\* the documented configuration values (README config.json)
ReadmeMaxPagination == 10
ReadmeRetryAttempts == 3
ReadmeRetryDelay == 2
ReadmeMaxBackoff == 300
ReadmeFetchInterval == 60
ReadmeMaxMsgSize == 8192

(***************************************************************************)
(* Values.                                                                 *)
(***************************************************************************)
\* the cursors the remote API hands out (opaque strings)
ApiMarkers == {"m1", "m2"}
\* a response whose marker field is JSON null (*string == nil)
NullMarker == "<nil>"
\* the marker file does not exist
NoFile == "<absent>"
\* testData of the pre-flight check
TestData == "preflight-test"
\* outcomes of os.WriteFile: O_WRONLY|O_CREATE|O_TRUNC open, then write
WriteOutcomes == {"ok", "openfail", "writefail"}
\* outcomes of Manager.Save's two system calls: <<MkdirAll succeeded, WriteFile outcome>>
DiskOutcomes == BOOLEAN \X WriteOutcomes

VARIABLES
    cfg,            \* config.Config, as loaded from the JSON file
    pc,             \* where the process is
    file,           \* content of cfg.MarkerFile on disk, or NoFile
    marker,         \* Manager.marker
    conn,           \* Writer.conn: "open" | "closed"
    reconnectCount, \* Writer.reconnectCount
    sinceReconnect, \* seconds since Writer.lastReconnect, capped at ReconnectDelay
    stats,          \* processor.Stats
    backoffDelay,   \* main: backoffDelay, seconds
    timer,          \* main: the period the ticker was last set to, seconds
    ctxDone,        \* main: ctx has been cancelled
    tick,           \* the running cycle was started by the ticker (not the initial one)
    tickerC,        \* main: ticks waiting in ticker.C (a channel of capacity 1)
    sigChan,        \* main: the signal waiting in sigChan (capacity 1), or "none"
    cyc,            \* locals of the running ProcessEvents call
    result,         \* what the last ProcessWithRecovery returned: "none" | "ok" | "fail"
    hist            \* history: what has happened, for stating properties

vars == <<cfg, pc, file, marker, conn, reconnectCount, sinceReconnect, stats,
          backoffDelay, timer, ctxDone, tick, tickerC, sigChan, cyc, result, hist>>

(***************************************************************************)
(* Configuration.                                                          *)
(***************************************************************************)
\* Config.Validate, the processing settings (the required strings are taken
\* as present).  MaxBackoffDelay, RetryDelay and MaxMsgSize are not checked.
Validate(c) ==
    /\ c.FetchInterval >= 10
    /\ c.MaxPagination >= 1
    /\ c.RetryAttempts >= 0

\* the processing part of a configuration file
Config(mp, ra, mb, ms) ==
    [FetchInterval |-> ReadmeFetchInterval, MaxPagination |-> mp,
     RetryAttempts |-> ra, RetryDelay |-> ReadmeRetryDelay,
     MaxBackoffDelay |-> mb, MaxMsgSize |-> ms]


(***************************************************************************)
(* The marker file and the Marker Manager.                                 *)
(***************************************************************************)
\* os.WriteFile(name, data): the file is opened with O_CREATE|O_TRUNC and then
\* written; a failed open leaves it as it was, a failed write leaves it
\* truncated.
WriteFile(old, data, outcome) ==
    CASE outcome = "ok" -> data
      [] outcome = "openfail" -> old
      [] OTHER -> ""

\* strings.TrimSpace, on the contents the marker file can have
TrimSpace(s) ==
    CASE s = "m1\n" -> "m1"
      [] s = " m2" -> "m2"
      [] OTHER -> s

\* Checker.CheckMarkerFileAccess: [file |-> the file afterwards, Passed |-> ...]
\* mkdirOK, w1, readOK, w2: outcomes of MkdirAll, the test write, the read
\* back and the clearing write.
CheckMarkerFileAccess(f, mkdirOK, w1, readOK, w2) ==
    LET f1 == WriteFile(f, TestData, w1)
        f2 == WriteFile(f1, "", w2)
    IN  IF ~mkdirOK THEN [file |-> f, Passed |-> FALSE]
        ELSE IF w1 # "ok" THEN [file |-> f1, Passed |-> FALSE]
        ELSE IF ~readOK THEN [file |-> f1, Passed |-> FALSE]
        ELSE [file |-> f2, Passed |-> TRUE]

\* Manager.Load as called by marker.New: [marker, err]; a missing file is
\* not an error for New, the marker stays empty
Load(f, readOK) ==
    IF f = NoFile THEN [marker |-> "", err |-> FALSE]
    ELSE IF ~readOK THEN [marker |-> "", err |-> TRUE]
    ELSE [marker |-> TrimSpace(f), err |-> FALSE]

\* a variant that sets m.marker before it writes the file
SaveSetsMarkerFirst(m, f, new, mkdirOK, w) ==
    IF new = ""
    THEN [marker |-> m, file |-> f, err |-> FALSE, tried |-> FALSE, wrote |-> FALSE]
    ELSE IF ~mkdirOK
    THEN [marker |-> new, file |-> f, err |-> TRUE, tried |-> TRUE, wrote |-> FALSE]
    ELSE [marker |-> new, file |-> WriteFile(f, new, w), err |-> w # "ok",
          tried |-> TRUE, wrote |-> w = "ok"]

\* Manager.Save: [marker, file, err, tried, wrote]
\* tried: the storage was touched (MkdirAll, then WriteFile); wrote: the file
\* was written in full
Save(m, f, new, mkdirOK, w) ==
    IF new = ""
    THEN [marker |-> m, file |-> f, err |-> FALSE, tried |-> FALSE, wrote |-> FALSE]
    ELSE IF ~mkdirOK
    THEN [marker |-> m, file |-> f, err |-> TRUE, tried |-> TRUE, wrote |-> FALSE]
    ELSE IF w # "ok"
    THEN [marker |-> m, file |-> WriteFile(f, new, w), err |-> TRUE,
          tried |-> TRUE, wrote |-> FALSE]
    ELSE [marker |-> new, file |-> WriteFile(f, new, w), err |-> FALSE,
          tried |-> TRUE, wrote |-> TRUE]

\* a variant without the test for an unchanged marker
UpdateAlwaysSaves(m, f, new, mkdirOK, w) == Save(m, f, new, mkdirOK, w)

\* Manager.Update
Update(m, f, new, mkdirOK, w) ==
    IF new = "" \/ new = m
    THEN [marker |-> m, file |-> f, err |-> FALSE, tried |-> FALSE, wrote |-> FALSE]
    ELSE Save(m, f, new, mkdirOK, w)

(***************************************************************************)
(* The API client.                                                         *)
(***************************************************************************)
\* what a 200 response without GraphQL errors carries: the marker field and
\* the number of records of the accounts without error
Responses == [marker : ApiMarkers \cup {"", NullMarker}, n : 0..MaxPageEvents]

\* the accounts of a response: each with its errorString and the number of
\* its records; the j-th record of the i-th account is <<i, j>>
Accounts ==
    UNION {[1..k -> [ErrorString : {"", "quota"}, Records : 0..MaxAccountRecords]] :
              k \in 0..MaxAccounts}

\* the records of one account, in the order of the response
AccountRecords(i, n) == [j \in 1..n |-> <<i, j>>]

\* a variant that stops at the first account with an error
RECURSIVE extractEventsUntilError(_, _)
extractEventsUntilError(accounts, i) ==
    IF i > Len(accounts) THEN <<>>
    ELSE IF accounts[i].ErrorString # "" THEN <<>>
    ELSE AccountRecords(i, accounts[i].Records) \o extractEventsUntilError(accounts, i + 1)

\* Client.extractEvents, from the i-th account on: an account with an
\* errorString is skipped, the records of the others are appended
RECURSIVE extractEvents(_, _)
extractEvents(accounts, i) ==
    IF i > Len(accounts) THEN <<>>
    ELSE IF accounts[i].ErrorString # "" THEN extractEvents(accounts, i + 1)
    ELSE AccountRecords(i, accounts[i].Records) \o extractEvents(accounts, i + 1)

\* Client.FetchEventsPage, the success path: the EventsPage of a response
FetchEventsPage(resp) ==
    IF resp.marker # NullMarker
    THEN [Events |-> resp.n, NewMarker |-> resp.marker,
          HasMore |-> resp.n > 0 /\ resp.marker # ""]
    ELSE [Events |-> resp.n, NewMarker |-> "", HasMore |-> FALSE]

NoPage == [Events |-> 0, NewMarker |-> "", HasMore |-> FALSE]

\* the errors FetchEventsPage returns: the transport, HTTP statuses 401, 403,
\* 429, 5xx and others, a body that is not JSON, GraphQL errors
ErrorClasses == {"transport", "401", "403", "429", "5xx", "status", "json", "graphql"}

\* what one FetchEventsPage call comes to: an error of a class, or "ok" with
\* a response
NoResponse == [marker |-> NullMarker, n |-> 0]
Failure(class) == [class |-> class, resp |-> NoResponse]
Success(resp) == [class |-> "ok", resp |-> resp]

\* a server whose first `failures` answers are errors and whose next answer
\* is resp
ServerAnswers(failures, resp) ==
    [i \in 1..(failures + 1) |->
        IF i <= failures THEN Failure("transport") ELSE Success(resp)]

\* a variant that goes round once more
ShouldAttemptOnceMore(attempt, maxAttempts) == attempt <= maxAttempts

\* for attempt := 0; attempt < maxAttempts; attempt++
ShouldAttempt(attempt, maxAttempts) == attempt < maxAttempts

\* FetchWithRetry before its first attempt
NoAttempts == [lastErr |-> "<nil>", cursors |-> {}, slept |-> 0]

\* the loop of FetchWithRetry from `attempt` on; answers[i] is what the i-th
\* FetchEventsPage call comes to; acc: the last error, the cursors the calls
\* were made with, the seconds slept
\* [err, page, attempts, lastErr, cursors, slept]
RECURSIVE RetryLoop(_, _, _, _, _, _)
RetryLoop(cursor, maxAttempts, retryDelay, answers, attempt, acc) ==
    IF ~ShouldAttempt(attempt, maxAttempts)
    THEN [err |-> TRUE, page |-> NoPage, attempts |-> attempt,
          lastErr |-> acc.lastErr, cursors |-> acc.cursors, slept |-> acc.slept]
    ELSE LET slept == IF attempt > 0 THEN acc.slept + retryDelay ELSE acc.slept
             cursors == acc.cursors \cup {cursor}
             a == answers[attempt + 1]
         IN  IF a.class = "ok"
             THEN [err |-> FALSE, page |-> FetchEventsPage(a.resp),
                   attempts |-> attempt + 1, lastErr |-> acc.lastErr,
                   cursors |-> cursors, slept |-> slept]
             ELSE RetryLoop(cursor, maxAttempts, retryDelay, answers, attempt + 1,
                            [lastErr |-> a.class, cursors |-> cursors, slept |-> slept])

\* Client.FetchWithRetry(cursor, maxAttempts, retryDelay) against the given
\* answers of the server
FetchWithRetry(cursor, maxAttempts, retryDelay, answers) ==
    RetryLoop(cursor, maxAttempts, retryDelay, answers, 0, NoAttempts)

(***************************************************************************)
(* The syslog Writer.                                                      *)
(***************************************************************************)
\* Writer.Write succeeds: the connection is usable and the network takes it
Write(c, netOK) == c = "open" /\ netOK

\* the ways a Reconnect call ends: refused for the rate limit, refused for
\* the ceiling, the dial failed, the dial succeeded
Refused == {"limited", "maxed"}
Dialed == {"failed", "ok"}

\* a variant without the rate limit
RateLimitedNever(since) == FALSE

\* time.Since(w.lastReconnect) < w.reconnectDelay
RateLimited(since) == since < ReconnectDelay

\* a variant that leaves the counter alone
CountAfterFailedDialUnchanged(count) == count

\* w.reconnectCount++ after a failed dial
CountAfterFailedDial(count) == count + 1

\* a variant without the ceiling on consecutive failures
ReconnectNoCeiling(c, count, since, dialOK) ==
    IF RateLimited(since)
    THEN [conn |-> c, reconnectCount |-> count, sinceReconnect |-> since,
          err |-> TRUE, dialed |-> FALSE, closed |-> FALSE, res |-> "limited"]
    ELSE IF ~dialOK
    THEN [conn |-> "closed", reconnectCount |-> CountAfterFailedDial(count),
          sinceReconnect |-> ReconnectDelay, err |-> TRUE, dialed |-> TRUE,
          closed |-> TRUE, res |-> "failed"]
    ELSE [conn |-> "open", reconnectCount |-> 0, sinceReconnect |-> 0,
          err |-> FALSE, dialed |-> TRUE, closed |-> TRUE, res |-> "ok"]

\* a variant that closes the old connection only once the dial succeeded
ReconnectClosesAfterDial(c, count, since, dialOK) ==
    IF RateLimited(since)
    THEN [conn |-> c, reconnectCount |-> count, sinceReconnect |-> since,
          err |-> TRUE, dialed |-> FALSE, closed |-> FALSE, res |-> "limited"]
    ELSE IF count >= MaxReconnects
    THEN [conn |-> c, reconnectCount |-> count, sinceReconnect |-> since,
          err |-> TRUE, dialed |-> FALSE, closed |-> FALSE, res |-> "maxed"]
    ELSE IF ~dialOK
    THEN [conn |-> c, reconnectCount |-> CountAfterFailedDial(count),
          sinceReconnect |-> ReconnectDelay, err |-> TRUE, dialed |-> TRUE,
          closed |-> FALSE, res |-> "failed"]
    ELSE [conn |-> "open", reconnectCount |-> 0, sinceReconnect |-> 0,
          err |-> FALSE, dialed |-> TRUE, closed |-> TRUE, res |-> "ok"]

\* Writer.Reconnect: [conn, reconnectCount, sinceReconnect, err, dialed, closed, res]
\* since: time.Since(w.lastReconnect), capped at ReconnectDelay; a failed
\* dial sets lastReconnect to the zero time, a time long past
\* dialed: net.DialTimeout was called (once); closed: the connection the
\* Writer held was closed
Reconnect(c, count, since, dialOK) ==
    IF RateLimited(since)
    THEN [conn |-> c, reconnectCount |-> count, sinceReconnect |-> since,
          err |-> TRUE, dialed |-> FALSE, closed |-> FALSE, res |-> "limited"]
    ELSE IF count >= MaxReconnects
    THEN [conn |-> c, reconnectCount |-> count, sinceReconnect |-> since,
          err |-> TRUE, dialed |-> FALSE, closed |-> FALSE, res |-> "maxed"]
    ELSE IF ~dialOK
    THEN [conn |-> "closed", reconnectCount |-> CountAfterFailedDial(count),
          sinceReconnect |-> ReconnectDelay, err |-> TRUE, dialed |-> TRUE,
          closed |-> TRUE, res |-> "failed"]
    ELSE [conn |-> "open", reconnectCount |-> 0, sinceReconnect |-> 0,
          err |-> FALSE, dialed |-> TRUE, closed |-> TRUE, res |-> "ok"]

(***************************************************************************)
(* The CEF Formatter.  A string value is a sequence of characters, a run   *)
(* of ordinary characters such as "Threat" counting as one; a map is       *)
(* [has |-> its keys, val |-> the value of each key].                      *)
(***************************************************************************)
\* the characters of field values: an ordinary one and two that are escaped
Chars == {"a", "=", "\\"}

\* the values an event field may have, the empty string included
Values == UNION {[1..n -> Chars] : n \in 0..MaxValueLen}

\* the names of event fields and of wire fields, as sort.Strings orders them
SortedNames == <<"event_sub_type", "event_type", "src", "src_ip", "user">>
FieldNames == {SortedNames[i] : i \in 1..Len(SortedNames)}

\* a source field without an entry in fieldMappings
NoTarget == ""

\* strings.ReplaceAll(v, c, r) for a single character c
RECURSIVE ReplaceAll(_, _, _)
ReplaceAll(v, c, r) ==
    IF v = <<>> THEN <<>>
    ELSE (IF Head(v) = c THEN r ELSE <<Head(v)>>) \o ReplaceAll(Tail(v), c, r)

\* a variant that escapes the backslash last
sanitizeValueBackslashLast(v) ==
    ReplaceAll(ReplaceAll(ReplaceAll(ReplaceAll(ReplaceAll(v,
        "=", <<"\\", "=">>), "|", <<"\\", "|">>),
        "\n", <<"\\", "n">>), "\r", <<"\\", "r">>), "\\", <<"\\", "\\">>)

\* sanitizeValue: backslash first, then = | LF CR
sanitizeValue(v) ==
    ReplaceAll(ReplaceAll(ReplaceAll(ReplaceAll(ReplaceAll(v,
        "\\", <<"\\", "\\">>), "=", <<"\\", "=">>), "|", <<"\\", "|">>),
        "\n", <<"\\", "n">>), "\r", <<"\\", "r">>)

\* isMappedField
isMappedField(fieldName, fieldMappings) == fieldMappings[fieldName] # NoTarget

\* a variant that takes an empty value for a value
getMapValueKeepsEmpty(m, key, defaultVal) ==
    IF key \in m.has THEN m.val[key] ELSE defaultVal

\* getMapValue
getMapValue(m, key, defaultVal) ==
    IF key \in m.has /\ m.val[key] # <<>> THEN m.val[key] ELSE defaultVal

\* mapEventTypeToSeverity
mapEventTypeToSeverity(eventType) ==
    CASE eventType = <<"Threat">> -> 10
      [] eventType = <<"Malware">> -> 10
      [] eventType = <<"Attack">> -> 9
      [] eventType = <<"Intrusion">> -> 9
      [] eventType = <<"Security">> -> 8
      [] eventType = <<"Policy Violation">> -> 7
      [] eventType = <<"Warning">> -> 6
      [] eventType = <<"Alert">> -> 6
      [] eventType = <<"Connectivity">> -> 5
      [] eventType = <<"Network">> -> 4
      [] eventType = <<"Traffic">> -> 3
      [] eventType = <<"Info">> -> 2
      [] eventType = <<"Debug">> -> 1
      [] OTHER -> 5

\* Formatter.Format, the header: the signature, the name and the severity
\* that go between the bars after vendor, product and version
Header(fieldsMap) ==
    LET signature == getMapValue(fieldsMap, "event_type", <<"Unknown">>)
    IN  [signature |-> signature,
         name |-> signature \o <<" - ">>
                      \o getMapValue(fieldsMap, "event_sub_type", <<"Unknown">>),
         severity |-> mapEventTypeToSeverity(signature)]

\* extensions := make(map[string]string)
NoExtensions == [has |-> {}, val |-> [n \in FieldNames |-> <<>>]]

\* extensions[name] = value
Put(ext, name, value) ==
    [has |-> ext.has \cup {name}, val |-> [ext.val EXCEPT ![name] = value]]

\* delete(extensions, name)
Delete(ext, name) ==
    [has |-> ext.has \ {name}, val |-> [ext.val EXCEPT ![name] = <<>>]]

\* "Apply field mappings": the loop over fieldMappings, in the order `keys`
\* in which the runtime happens to iterate the map
RECURSIVE ApplyMappings(_, _, _, _)
ApplyMappings(keys, fieldMappings, fieldsMap, ext) ==
    IF keys = <<>> THEN ext
    ELSE LET sourceKey == Head(keys)
             hit == /\ isMappedField(sourceKey, fieldMappings)
                    /\ sourceKey \in fieldsMap.has
                    /\ fieldsMap.val[sourceKey] # <<>>
         IN  ApplyMappings(Tail(keys), fieldMappings, fieldsMap,
                 IF hit THEN Put(ext, fieldMappings[sourceKey],
                                 sanitizeValue(fieldsMap.val[sourceKey]))
                 ELSE ext)

\* a variant that leaves a wire field alone once it is set
RECURSIVE AddUnmappedKeepsFirst(_, _, _, _)
AddUnmappedKeepsFirst(keys, fieldMappings, fieldsMap, ext) ==
    IF keys = <<>> THEN ext
    ELSE LET k == Head(keys)
             hit == /\ k \in fieldsMap.has
                    /\ ~isMappedField(k, fieldMappings)
                    /\ fieldsMap.val[k] # <<>>
                    /\ k \notin ext.has
         IN  AddUnmappedKeepsFirst(Tail(keys), fieldMappings, fieldsMap,
                 IF hit THEN Put(ext, k, sanitizeValue(fieldsMap.val[k])) ELSE ext)

\* "Add unmapped fields": the loop over fieldsMap, in the order `keys`
RECURSIVE AddUnmapped(_, _, _, _)
AddUnmapped(keys, fieldMappings, fieldsMap, ext) ==
    IF keys = <<>> THEN ext
    ELSE LET k == Head(keys)
             hit == /\ k \in fieldsMap.has
                    /\ ~isMappedField(k, fieldMappings)
                    /\ fieldsMap.val[k] # <<>>
         IN  AddUnmapped(Tail(keys), fieldMappings, fieldsMap,
                 IF hit THEN Put(ext, k, sanitizeValue(fieldsMap.val[k])) ELSE ext)

\* a variant that leaves an emitted field in the map
RECURSIVE OrderedPartsWithoutDelete(_, _)
OrderedPartsWithoutDelete(orderedFields, ext) ==
    IF orderedFields = <<>> THEN [parts |-> <<>>, ext |-> ext]
    ELSE LET field == Head(orderedFields)
         IN  IF field \in ext.has
             THEN LET r == OrderedPartsWithoutDelete(Tail(orderedFields), ext)
                  IN  [parts |-> <<<<field, ext.val[field]>>>> \o r.parts, ext |-> r.ext]
             ELSE OrderedPartsWithoutDelete(Tail(orderedFields), ext)

\* "Ordered fields first": [parts, ext], ext being what is left of the map
RECURSIVE OrderedParts(_, _)
OrderedParts(orderedFields, ext) ==
    IF orderedFields = <<>> THEN [parts |-> <<>>, ext |-> ext]
    ELSE LET field == Head(orderedFields)
         IN  IF field \in ext.has
             THEN LET r == OrderedParts(Tail(orderedFields), Delete(ext, field))
                  IN  [parts |-> <<<<field, ext.val[field]>>>> \o r.parts, ext |-> r.ext]
             ELSE OrderedParts(Tail(orderedFields), ext)

\* "Remaining fields alphabetically"
RECURSIVE RemainingParts(_, _)
RemainingParts(names, ext) ==
    IF names = <<>> THEN <<>>
    ELSE (IF Head(names) \in ext.has
          THEN <<<<Head(names), ext.val[Head(names)]>>>> ELSE <<>>)
             \o RemainingParts(Tail(names), ext)

\* Formatter.Format, the extension body: the sequence of <<field, value>>
\* that is joined as field=value with spaces
\* (mapKeys, eventKeys: the iteration orders of the two maps)
Format(fieldMappings, orderedFields, fieldsMap, mapKeys, eventKeys) ==
    LET mapped == ApplyMappings(mapKeys, fieldMappings, fieldsMap, NoExtensions)
        extensions == AddUnmapped(eventKeys, fieldMappings, fieldsMap, mapped)
        first == OrderedParts(orderedFields, extensions)
    IN  first.parts \o RemainingParts(SortedNames, first.ext)

(***************************************************************************)
(* The scheduler's backoff arithmetic.                                     *)
(***************************************************************************)
\* a variant that forgets the ceiling
NextBackoffUncapped(d, maxBackoff) == d * 2

\* backoffDelay *= 2; if backoffDelay > maxBackoff { backoffDelay = maxBackoff }
NextBackoff(d, maxBackoff) ==
    IF d * 2 > maxBackoff THEN maxBackoff ELSE d * 2

\* a variant that doubles first and gives the timer the doubled delay
ResetPeriodAfterDoubling(d, maxBackoff) == NextBackoff(d, maxBackoff)

\* ticker.Reset(backoffDelay), called before the doubling: the period the
\* ticker gets after a failed cycle
ResetPeriod(d, maxBackoff) == d


(***************************************************************************)
(* Process state.                                                          *)
(***************************************************************************)
\* locals of ProcessEvents before a cycle
NoCycle ==
    [paginationCount |-> 0, currentMarker |-> "", totalEventsProcessed |-> 0,
     page |-> NoPage, forwardedCount |-> 0]

NewStats == [TotalEventsForwarded |-> 0, TotalAPIRequests |-> 0, FailedAPIRequests |-> 0]

\* no record has been handled since the page was fetched
NoIO == [firstOK |-> TRUE, writes |-> 0, reconnects |-> 0, err |-> FALSE]

\* per-cycle history, reset when a cycle starts
NoCycleHist ==
    [fetches |-> 0,            \* FetchWithRetry calls of the cycle
     requests |-> 0,           \* FetchEventsPage calls of the cycle, where counted
     fetchFailed |-> FALSE,    \* a FetchWithRetry call of the cycle returned an error
     fwd |-> "none",           \* forwardEvents for the current page: none | ok | err
     written |-> 0,            \* records of the current page whose Write returned nil
     fwdFailed |-> FALSE,      \* a forwardEvents call of the cycle returned an error
     fetchAfterFwdFail |-> FALSE, \* a page was fetched after such an error
     returned |-> {},          \* the NewMarker values of the pages fetched in the cycle
     allMore |-> TRUE,         \* every fetch so far gave a non-empty page with HasMore
     cancelled |-> FALSE,      \* the cycle ended on ctx.Done()
     panicked |-> FALSE,       \* the cycle ended in a recovered panic
     updated |-> FALSE,        \* the current page's marker step changed Manager.marker
     delivered |-> 0,          \* records of the cycle whose Write returned nil
     rc |-> "none",            \* how the Reconnect call of the last step ended, if any
     gap |-> ReconnectDelay,   \* at that call: seconds since the cycle's previous dial
     sinceDial |-> ReconnectDelay, \* seconds since the cycle's last dial by Reconnect,
                               \* capped at ReconnectDelay (also: no dial yet)
     forwardedBefore |-> 0,    \* Stats.TotalEventsForwarded when the cycle began
     sent |-> {},              \* the records written to the sink in the cycle
     io |-> NoIO,              \* the calls forwardEvents made for the last record
     cursor |-> "",            \* the cursor the current page was fetched with, from
                               \* the fetch to the page's marker step
     unsaved |-> "",           \* the marker whose Update failed in the cycle, no
                               \* Update having succeeded since
     term |-> FALSE]           \* a terminating signal was sent during the cycle

\* no call of a component under test has been recorded
NoCall == [op |-> "none"]

\* the process is past start-up and has not exited
RunningPcs == {"main", "page", "forward", "marker", "returned", "select"}
Running == pc \in RunningPcs
\* a ProcessEvents call is in progress
InCycle == pc \in {"page", "forward", "marker"}

\* the memory of a process that is not running
ProcessDown ==
    /\ marker' = ""
    /\ conn' = "closed"
    /\ reconnectCount' = 0
    /\ sinceReconnect' = ReconnectDelay
    /\ stats' = NewStats
    /\ backoffDelay' = BaseBackoff
    /\ timer' = 0
    /\ ctxDone' = FALSE
    /\ tick' = FALSE
    /\ tickerC' = 0
    /\ sigChan' = "none"
    /\ cyc' = NoCycle
    /\ result' = "none"

InitWith(configs) ==
    /\ cfg \in configs
    /\ pc = "boot"
    /\ file = NoFile
    /\ marker = ""
    /\ conn = "closed"
    /\ reconnectCount = 0
    /\ sinceReconnect = ReconnectDelay
    /\ stats = NewStats
    /\ backoffDelay = BaseBackoff
    /\ timer = 0
    /\ ctxDone = FALSE
    /\ tick = FALSE
    /\ tickerC = 0
    /\ sigChan = "none"
    /\ cyc = NoCycle
    /\ result = "none"
    /\ hist = [durable |-> "", restarts |-> 0, consecFail |-> 0, tickFail |-> 0,
               started |-> FALSE, active |-> 0, termSent |-> FALSE,
               c |-> NoCycleHist, call |-> NoCall]

(***************************************************************************)
(* Start-up: main up to "starting main processing loop".                   *)
(***************************************************************************)
\* cfg.Validate() fails: os.Exit(1)
ValidateFails ==
    /\ pc = "boot"
    /\ ~Validate(cfg)
    /\ pc' = "exit"
    /\ UNCHANGED <<cfg, tickerC, sigChan, file, marker, conn, reconnectCount, sinceReconnect, stats,
                   backoffDelay, timer, ctxDone, tick, cyc, result, hist>>

\* preflight.RunAll: the marker file check, then the syslog and API probes;
\* any failed check ends the process
Preflight ==
    /\ pc = "boot"
    /\ Validate(cfg)
    /\ \E mkdirOK, readOK, probesOK \in BOOLEAN, w1, w2 \in WriteOutcomes :
          LET r == CheckMarkerFileAccess(file, mkdirOK, w1, readOK, w2)
          IN  /\ file' = r.file
              /\ pc' = IF r.Passed /\ probesOK THEN "init" ELSE "exit"
    /\ UNCHANGED <<cfg, tickerC, sigChan, marker, conn, reconnectCount, sinceReconnect, stats,
                   backoffDelay, timer, ctxDone, tick, cyc, result, hist>>

\* marker.New, syslog.NewWriter, processor.NewStats, the ticker and the
\* backoff variables
InitComponents ==
    /\ pc = "init"
    /\ \E readOK, dialOK \in BOOLEAN :
          LET l == Load(file, readOK)
          IN  IF l.err \/ ~dialOK
              THEN /\ pc' = "exit"
                   /\ UNCHANGED <<marker, conn, timer, hist>>
              ELSE /\ pc' = "main"
                   /\ marker' = l.marker
                   /\ conn' = "open"
                   /\ timer' = cfg.FetchInterval
                   /\ hist' = [hist EXCEPT !.started = TRUE]
    /\ reconnectCount' = 0
    /\ sinceReconnect' = ReconnectDelay
    /\ stats' = NewStats
    /\ backoffDelay' = BaseBackoff
    /\ UNCHANGED <<cfg, tickerC, sigChan, file, ctxDone, tick, cyc, result>>


(***************************************************************************)
(* One cycle: Processor.ProcessWithRecovery around Processor.ProcessEvents.*)
(***************************************************************************)
\* the time a network call, a sleep or a wait for the ticker takes: under a
\* second, or the cooldown and more
Elapsed == {0, ReconnectDelay}

\* a time.Since(...) value t seconds later, capped at ReconnectDelay
After(since, t) == IF since + t >= ReconnectDelay THEN ReconnectDelay ELSE since + t

\* a variant that lets one more iteration through
LoopGuardOffByOne(count, maxPagination) == count <= maxPagination

\* for paginationCount < p.cfg.MaxPagination
LoopGuard(count, maxPagination) == count < maxPagination

\* a variant that leaves the loop one page early
LoopHeadStopsEarly(count) ==
    IF LoopGuard(count + 1, cfg.MaxPagination) THEN "page" ELSE "returned"

\* where the process goes at the head of the pagination loop; leaving the
\* loop, ProcessEvents logs the summary and returns nil
LoopHead(count) == IF LoopGuard(count, cfg.MaxPagination) THEN "page" ELSE "returned"

\* a variant that goes to the marker without forwarding
AfterFetchSkipForward(page) == "marker"

\* after a fetched page: forwardEvents when len(page.Events) > 0
AfterFetch(page) == IF page.Events > 0 THEN "forward" ELSE "marker"

\* a variant that falls through to the marker update
OnForwardErrorFallsThrough(count) == "marker"

\* a variant that goes back to the record that failed
OnForwardErrorSameRecord(count) == "forward"

\* after forwardEvents returned an error: numErrors++, log, continue
OnForwardError(count) == LoopHead(count)

\* if page.NewMarker != "" && page.NewMarker != currentMarker
MarkerChanged(page, currentMarker) ==
    page.NewMarker # "" /\ page.NewMarker # currentMarker

\* ProcessWithRecovery's return value for ProcessEvents' error (or a panic)
Returned(failed) == IF failed THEN "fail" ELSE "ok"

\* the entry of ProcessWithRecovery and of ProcessEvents, up to the loop
BeginCycle(byTicker, cap) ==
    /\ stats.TotalAPIRequests < cap
    /\ tick' = byTicker
    /\ cyc' = [NoCycle EXCEPT !.currentMarker = marker]
    /\ stats' = [stats EXCEPT !.TotalAPIRequests = @ + 1]
    /\ result' = "none"
    /\ hist' = [hist EXCEPT !.active = @ + 1,
                            !.c = [NoCycleHist EXCEPT
                                       !.forwardedBefore = stats.TotalEventsForwarded]]
    /\ pc' = LoopHead(0)

\* a variant that counts a failed cycle in the recover and after it
EndCycleCountsTwice(failed) ==
    /\ pc' = "returned"
    /\ result' = Returned(failed)
    /\ stats' = IF failed THEN [stats EXCEPT !.FailedAPIRequests = @ + 2] ELSE stats

\* the cycle ends: ProcessEvents returned err (or panicked) or nil
EndCycle(failed) ==
    /\ pc' = "returned"
    /\ result' = Returned(failed)
    /\ stats' = IF failed THEN [stats EXCEPT !.FailedAPIRequests = @ + 1] ELSE stats

\* case <-ctx.Done(): return fmt.Errorf("context cancelled during pagination")
ObserveCancel ==
    /\ pc = "page"
    /\ ctxDone
    /\ EndCycle(TRUE)
    /\ hist' = [hist EXCEPT !.c.cancelled = TRUE, !.c.allMore = FALSE]
    /\ UNCHANGED <<cfg, tickerC, sigChan, file, marker, conn, reconnectCount, sinceReconnect,
                   backoffDelay, timer, ctxDone, tick, cyc>>

\* p.apiClient.FetchWithRetry(currentMarker, ...) and what follows up to the
\* forwarding of the page
\* (resps: the answers the server may give; counted: the history keeps the
\* number of FetchEventsPage calls)
FetchStep(resps, counted) ==
    /\ pc = "page"
    /\ ~ctxDone
    /\ \E failures \in 0..cfg.RetryAttempts, resp \in resps, t \in Elapsed :
          LET f == FetchWithRetry(cyc.currentMarker, cfg.RetryAttempts, cfg.RetryDelay,
                                  ServerAnswers(failures, resp))
              h == [hist.c EXCEPT !.fetches = @ + 1, !.requests = IF counted THEN @ + f.attempts ELSE @,
                                  !.fwd = "none", !.written = 0,
                                  !.updated = FALSE,
                                  !.fetchAfterFwdFail = @ \/ hist.c.fwdFailed,
                                  !.rc = "none", !.gap = ReconnectDelay,
                                  !.sinceDial = After(@, t), !.io = NoIO,
                                  !.cursor = cyc.currentMarker]
          IN  /\ sinceReconnect' = After(sinceReconnect, t)
              /\ IF f.err
                 THEN /\ EndCycle(FALSE)
                      /\ cyc' = cyc
                      /\ hist' = [hist EXCEPT !.c = [h EXCEPT !.fetchFailed = TRUE,
                                                               !.allMore = FALSE]]
                 ELSE /\ pc' = AfterFetch(f.page)
                      /\ cyc' = [cyc EXCEPT !.paginationCount = @ + 1, !.page = f.page,
                                            !.forwardedCount = 0]
                      /\ hist' = [hist EXCEPT !.c =
                                    [h EXCEPT !.returned = @ \cup {f.page.NewMarker},
                                              !.allMore = @ /\ f.page.HasMore]]
                      /\ UNCHANGED <<stats, result>>
    /\ UNCHANGED <<cfg, tickerC, sigChan, file, marker, conn, reconnectCount,
                   backoffDelay, timer, ctxDone, tick>>

\* the fetch of a page, the requests not counted
FetchPage(resps) == FetchStep(resps, FALSE)

\* the fetch of a page, the requests counted
CountedFetchPage(resps) == FetchStep(resps, TRUE)

\* a variant that writes again without reconnecting
ForwardOneWithoutReconnect(c, count, since, w1, dialOK, w2) ==
    IF Write(c, w1)
    THEN [conn |-> c, reconnectCount |-> count, sinceReconnect |-> since,
          err |-> FALSE, rc |-> "none",
          io |-> [firstOK |-> TRUE, writes |-> 1, reconnects |-> 0, err |-> FALSE]]
    ELSE [conn |-> c, reconnectCount |-> count, sinceReconnect |-> since,
          err |-> ~Write(c, w2), rc |-> "none",
          io |-> [firstOK |-> FALSE, writes |-> 2, reconnects |-> 0,
                  err |-> ~Write(c, w2)]]

\* the body of forwardEvents' loop for one record, from the write on:
\* Write; on failure one Reconnect and one more Write
\* [conn, reconnectCount, sinceReconnect, err, rc, io]; rc: how the Reconnect
\* call ended, "none" without one; io: whether the first Write returned nil,
\* the Write and Reconnect calls made, whether an error was returned
ForwardOne(c, count, since, w1, dialOK, w2) ==
    IF Write(c, w1)
    THEN [conn |-> c, reconnectCount |-> count, sinceReconnect |-> since,
          err |-> FALSE, rc |-> "none",
          io |-> [firstOK |-> TRUE, writes |-> 1, reconnects |-> 0, err |-> FALSE]]
    ELSE LET r == Reconnect(c, count, since, dialOK)
             err == r.err \/ ~Write(r.conn, w2)
         IN  [conn |-> r.conn, reconnectCount |-> r.reconnectCount,
              sinceReconnect |-> r.sinceReconnect,
              err |-> err, rc |-> r.res,
              io |-> [firstOK |-> FALSE, writes |-> IF r.err THEN 1 ELSE 2,
                      reconnects |-> 1, err |-> err]]

\* the i-th record of the page the API returns for a cursor: the feed is
\* read in order from the position the cursor stands for, so a page fetched
\* again with the same cursor begins with the same records
Event(cursor, i) == <<cursor, i>>

\* syslogMessage[:p.cfg.MaxMsgSize] with a negative bound panics; every
\* message is longer than a negative MaxMsgSize
TruncatePanics(maxMsgSize) == maxMsgSize < 0

\* forwardEvents, one record per step; after the last record the batch is
\* counted and the cycle goes on to the marker
\* (net: what a write or a dial may come to, TRUE for success)
ForwardRecord(net) ==
    /\ pc = "forward"
    /\ IF TruncatePanics(cfg.MaxMsgSize)
       THEN /\ EndCycle(TRUE)
            /\ hist' = [hist EXCEPT !.c.panicked = TRUE, !.c.allMore = FALSE,
                                    !.c.fwd = "err"]
            /\ UNCHANGED <<conn, reconnectCount, sinceReconnect, cyc>>
       ELSE \E w1, dialOK, w2 \in net, t \in Elapsed :
              LET r == ForwardOne(conn, reconnectCount, After(sinceReconnect, t),
                                  w1, dialOK, w2)
                  n == cyc.forwardedCount + 1
                  sd == After(hist.c.sinceDial, t)
                  h == [hist EXCEPT !.c.rc = r.rc, !.c.io = r.io,
                                    !.c.gap = IF r.rc = "none" THEN ReconnectDelay ELSE sd,
                                    !.c.sinceDial = IF r.rc \in Dialed THEN 0 ELSE sd,
                                    !.c.sent = IF r.err THEN @
                                               ELSE @ \cup {Event(cyc.currentMarker, n)}]
              IN  /\ conn' = r.conn
                  /\ reconnectCount' = r.reconnectCount
                  /\ sinceReconnect' = r.sinceReconnect
                  /\ IF r.err
                     THEN /\ IF OnForwardError(cyc.paginationCount) = "returned"
                             THEN EndCycle(FALSE)
                             ELSE /\ pc' = OnForwardError(cyc.paginationCount)
                                  /\ UNCHANGED <<stats, result>>
                          /\ cyc' = cyc
                          /\ hist' = [h EXCEPT !.c.fwd = "err", !.c.fwdFailed = TRUE,
                                               !.c.allMore = FALSE]
                     ELSE IF n < cyc.page.Events
                     THEN /\ pc' = "forward"
                          /\ cyc' = [cyc EXCEPT !.forwardedCount = n]
                          /\ hist' = [h EXCEPT !.c.written = @ + 1,
                                               !.c.delivered = @ + 1]
                          /\ UNCHANGED <<stats, result>>
                     ELSE /\ pc' = "marker"
                          /\ cyc' = [cyc EXCEPT !.forwardedCount = n,
                                                !.totalEventsProcessed = @ + n]
                          /\ stats' = [stats EXCEPT !.TotalEventsForwarded = @ + n]
                          /\ hist' = [h EXCEPT !.c.fwd = "ok", !.c.written = @ + 1,
                                               !.c.delivered = @ + 1]
                          /\ UNCHANGED result
    /\ UNCHANGED <<cfg, tickerC, sigChan, file, marker, backoffDelay, timer, ctxDone, tick>>

\* "Update marker if it changed", then the HasMore test and the pause
\* (disk: what MkdirAll and WriteFile may come to)
MarkerStep(disk) ==
    /\ pc = "marker"
    /\ \E d \in disk :
          LET changed == MarkerChanged(cyc.page, cyc.currentMarker)
              u == IF changed
                   THEN Update(marker, file, cyc.page.NewMarker, d[1], d[2])
                   ELSE [marker |-> marker, file |-> file, err |-> FALSE,
                         tried |-> FALSE, wrote |-> FALSE]
          IN  /\ cyc' = IF changed
                        THEN [cyc EXCEPT !.currentMarker = cyc.page.NewMarker]
                        ELSE cyc
              /\ marker' = u.marker
              /\ file' = u.file
              /\ hist' = [hist EXCEPT !.durable = IF u.wrote THEN u.marker ELSE @,
                                      !.c.cursor = "",
                                      !.c.unsaved = IF ~changed THEN @
                                                    ELSE IF u.err THEN cyc.page.NewMarker
                                                    ELSE "",
                                      !.c.updated = (u.marker # marker),
                                      !.c.rc = "none", !.c.gap = ReconnectDelay,
                                      !.c.io = NoIO]
    /\ IF ~cyc.page.HasMore \/ LoopHead(cyc.paginationCount) = "returned"
       THEN EndCycle(FALSE)
       ELSE /\ pc' = "page"
            /\ UNCHANGED <<stats, result>>
    /\ UNCHANGED <<cfg, tickerC, sigChan, conn, reconnectCount, sinceReconnect, backoffDelay, timer,
                   ctxDone, tick>>

(***************************************************************************)
(* The scheduler: main's loop.                                             *)
(***************************************************************************)
\* success := proc.ProcessWithRecovery(ctx), before the loop
StartInitialCycle ==
    /\ pc = "main"
    /\ BeginCycle(FALSE, 1)
    /\ UNCHANGED <<cfg, tickerC, sigChan, file, marker, conn, reconnectCount, sinceReconnect,
                   backoffDelay, timer, ctxDone>>

\* a variant where the select is also taken while a cycle runs (the cycle
\* run in a goroutine of its own)
AtSelectOrInCycle == pc \in {"select", "page", "forward", "marker"}

\* main is at its select: ProcessWithRecovery is called on main's own
\* goroutine, so the select is reached only between cycles
AtSelect == pc = "select"

\* case <-ticker.C: success := proc.ProcessWithRecovery(ctx)
\* (cap: the cycles a run of the process may start in all)
TickCycle(cap) ==
    /\ AtSelect
    /\ tickerC > 0
    /\ tickerC' = tickerC - 1
    /\ BeginCycle(TRUE, cap)
    /\ \E t \in Elapsed : sinceReconnect' = After(sinceReconnect, t)
    /\ UNCHANGED <<cfg, sigChan, file, marker, conn, reconnectCount,
                   backoffDelay, timer, ctxDone>>

\* history of the scheduler: consecutive failed cycles, all and ticker-driven;
\* the cycle's own history ends with the cycle
Outcome(h, failed, byTicker) ==
    [h EXCEPT !.consecFail = IF failed THEN @ + 1 ELSE 0,
              !.tickFail = IF ~failed THEN 0 ELSE IF byTicker THEN @ + 1 ELSE @,
              !.active = @ - 1,
              !.c = NoCycleHist]

\* back in main's select: the cycle's locals and its return value are dead
BackToSelect ==
    /\ pc' = "select"
    /\ tick' = FALSE
    /\ cyc' = NoCycle
    /\ result' = "none"

\* the initial cycle returned: only a warning when it failed
AfterInitialCycle ==
    /\ pc = "returned"
    /\ ~tick
    /\ BackToSelect
    /\ hist' = Outcome(hist, result = "fail", FALSE)
    /\ UNCHANGED <<cfg, tickerC, sigChan, file, marker, conn, reconnectCount, sinceReconnect, stats,
                   backoffDelay, timer, ctxDone>>

\* a ticker cycle returned true: reset backoff and ticker
AfterTickSuccess ==
    /\ pc = "returned"
    /\ tick
    /\ result = "ok"
    /\ backoffDelay' = BaseBackoff
    /\ timer' = cfg.FetchInterval
    /\ BackToSelect
    /\ hist' = Outcome(hist, FALSE, TRUE)
    /\ UNCHANGED <<cfg, tickerC, sigChan, file, marker, conn, reconnectCount, sinceReconnect, stats,
                   ctxDone>>

\* a ticker cycle returned false: ticker.Reset(backoffDelay), then double
\* with the ceiling.  Ticker.Reset panics on a non-positive duration, outside
\* any recover: the process dies.
AfterTickFailure ==
    /\ pc = "returned"
    /\ tick
    /\ result = "fail"
    /\ IF backoffDelay <= 0
       THEN /\ pc' = "crashed"
            /\ ProcessDown
            /\ hist' = [hist EXCEPT !.c = NoCycleHist, !.active = 0, !.termSent = FALSE]
       ELSE /\ timer' = ResetPeriod(backoffDelay, cfg.MaxBackoffDelay)
            /\ backoffDelay' = NextBackoff(backoffDelay, cfg.MaxBackoffDelay)
            /\ BackToSelect
            /\ hist' = Outcome(hist, TRUE, TRUE)
            /\ UNCHANGED <<marker, conn, reconnectCount, sinceReconnect, stats,
                           ctxDone, tickerC, sigChan>>
    /\ UNCHANGED <<cfg, file>>

\* case sig := <-sigChan with SIGHUP: log, continue
Reload ==
    /\ AtSelect
    /\ sigChan = "hup"
    /\ sigChan' = "none"
    /\ UNCHANGED <<cfg, pc, file, marker, conn, reconnectCount, sinceReconnect, stats,
                   backoffDelay, timer, ctxDone, tick, tickerC, cyc, result, hist>>

\* case sig := <-sigChan with a terminating signal: final statistics,
\* cancel(), return; the deferred calls close the syslog connection and the
\* process and its memory are gone
Shutdown ==
    /\ AtSelect
    /\ sigChan = "term"
    /\ pc' = "exit"
    /\ ProcessDown
    /\ hist' = [hist EXCEPT !.c = NoCycleHist, !.termSent = FALSE]
    /\ UNCHANGED <<cfg, file>>

\* case <-ctx.Done() of main's select: return
CtxDoneCase ==
    /\ pc = "select"
    /\ ctxDone
    /\ pc' = "exit"
    /\ ProcessDown
    /\ hist' = [hist EXCEPT !.c = NoCycleHist]
    /\ UNCHANGED <<cfg, file>>

(***************************************************************************)
(* The environment.                                                        *)
(***************************************************************************)
\* the service manager starts the program again (systemd Restart=)
Restart ==
    /\ pc \in {"exit", "crashed"}
    /\ hist.restarts < MaxRestarts
    /\ pc' = "boot"
    /\ hist' = [hist EXCEPT !.restarts = @ + 1, !.consecFail = 0, !.tickFail = 0,
                            !.started = FALSE, !.active = 0, !.termSent = FALSE,
                            !.c = NoCycleHist]
    /\ UNCHANGED <<cfg, tickerC, sigChan, file, marker, conn, reconnectCount, sinceReconnect, stats,
                   backoffDelay, timer, ctxDone, tick, cyc, result>>

\* the runtime's timer sends a tick on ticker.C; the tick is dropped when
\* the channel is full
\* (when: where main may be when a tick fires)
TickFires(when) ==
    /\ pc \in when
    /\ tickerC = 0
    /\ tickerC' = 1
    /\ UNCHANGED <<cfg, pc, file, marker, conn, reconnectCount, sinceReconnect, stats,
                   backoffDelay, timer, ctxDone, tick, sigChan, cyc, result, hist>>

\* a signal is sent to the process: signal.Notify's handler puts it into
\* sigChan without blocking, so it is dropped when the channel is full
\* (sigs: "hup" for SIGHUP, "term" for SIGINT, SIGTERM or SIGQUIT;
\*  when: where main may be when the signal arrives)
SendSignal(sigs, when) ==
    /\ pc \in when
    /\ \E sig \in sigs :
          /\ sigChan' = IF sigChan = "none" THEN sig ELSE sigChan
          /\ hist' = [hist EXCEPT !.termSent = @ \/ sig = "term",
                                  !.c.term = @ \/ (sig = "term" /\ InCycle)]
    /\ UNCHANGED <<cfg, pc, file, marker, conn, reconnectCount, sinceReconnect, stats,
                   backoffDelay, timer, ctxDone, tick, tickerC, cyc, result>>

\* whoever holds the context passed to ProcessWithRecovery cancels it while
\* the cycle runs
CancelCtx ==
    /\ InCycle
    /\ ~ctxDone
    /\ ctxDone' = TRUE
    /\ UNCHANGED <<cfg, tickerC, sigChan, pc, file, marker, conn, reconnectCount, sinceReconnect, stats,
                   backoffDelay, timer, tick, cyc, result, hist>>

(***************************************************************************)
(* The components on their own: one call with given arguments, recorded in *)
(* hist.call together with what the call returned.                         *)
(***************************************************************************)
\* markerManager.Update(new) on the Manager built at start-up
UpdateCall ==
    /\ pc = "main"
    /\ \E new \in ApiMarkers \cup {""}, d \in DiskOutcomes :
          LET u == Update(marker, file, new, d[1], d[2])
          IN  /\ marker' = u.marker
              /\ file' = u.file
              /\ hist' = [hist EXCEPT !.call =
                            [op |-> "Update", arg |-> new, prior |-> marker,
                             err |-> u.err, tried |-> u.tried, wrote |-> u.wrote]]
    /\ UNCHANGED <<cfg, tickerC, sigChan, pc, conn, reconnectCount, sinceReconnect, stats,
                   backoffDelay, timer, ctxDone, tick, cyc, result>>

\* what the server may answer to the calls of one FetchWithRetry
UnitAnswers ==
    {Failure(c) : c \in ErrorClasses \ {"status", "json"}}
        \cup {Success(r) : r \in {[marker |-> "m1", n |-> 1], NoResponse}}

\* apiClient.FetchWithRetry(m, maxAttempts, retryDelay) on the Client built
\* at start-up, once
FetchWithRetryCall ==
    /\ pc = "main"
    /\ hist.call = NoCall
    /\ \E m \in {"", "m1"}, maxAttempts \in 0..MaxRetryAttempts,
          answers \in [1..(MaxRetryAttempts + 1) -> UnitAnswers] :
          hist' = [hist EXCEPT !.call =
                     [op |-> "FetchWithRetry", marker |-> m, maxAttempts |-> maxAttempts,
                      retryDelay |-> cfg.RetryDelay, answers |-> answers,
                      r |-> FetchWithRetry(m, maxAttempts, cfg.RetryDelay, answers)]]
    /\ UNCHANGED <<cfg, tickerC, sigChan, pc, file, marker, conn, reconnectCount, sinceReconnect, stats,
                   backoffDelay, timer, ctxDone, tick, cyc, result>>

\* apiClient.FetchEventsPage(m) on the Client built at start-up, once,
\* answered with status 200 and a body without GraphQL errors whose
\* eventsFeed has the given marker and accounts
FetchEventsPageCall ==
    /\ pc = "main"
    /\ hist.call = NoCall
    /\ \E m \in ApiMarkers \cup {"", NullMarker}, accounts \in Accounts :
          LET events == extractEvents(accounts, 1)
          IN  hist' = [hist EXCEPT !.call =
                         [op |-> "FetchEventsPage", marker |-> m, accounts |-> accounts,
                          events |-> events, err |-> FALSE,
                          page |-> FetchEventsPage([marker |-> m, n |-> Len(events)])]]
    /\ UNCHANGED <<cfg, pc, file, marker, conn, reconnectCount, sinceReconnect, stats,
                   backoffDelay, timer, ctxDone, tick, tickerC, sigChan, cyc, result>>

\* the rename tables (Validate refuses an empty one), ordered-field lists,
\* events and map iteration orders the Formatter is called with
UnitMappings ==
    {[k \in FieldNames |-> IF k = "user" THEN "user" ELSE NoTarget],
     [k \in FieldNames |-> IF k = "src_ip" THEN "src" ELSE NoTarget],
     [k \in FieldNames |-> IF k \in {"src_ip", "user"} THEN "src" ELSE NoTarget]}

UnitOrderedFields == {<<>>, <<"src">>, <<"user", "src", "user">>}

\* events of up to three fields with any values
BodyNames == {"src", "src_ip", "user"}

BodyEvents ==
    {e \in [has : SUBSET BodyNames, val : [FieldNames -> Values]] :
        \A k \in FieldNames \ e.has : e.val[k] = <<>>}

\* events with a source address and with or without a type and a subtype
EventTypes == {<<>>, <<"Threat">>, <<"threat">>, <<"Info">>, <<"Debug">>, <<"Login">>}

HeaderEvents ==
    {[has |-> h \cup {"src_ip"},
      val |-> [k \in FieldNames |->
                 CASE k = "event_type" /\ k \in h -> t
                   [] k = "event_sub_type" /\ k \in h -> <<"Login">>
                   [] k = "src_ip" -> <<"1.2.3.4">>
                   [] OTHER -> <<>>]] :
        h \in SUBSET {"event_type", "event_sub_type"}, t \in EventTypes}

UnitEvents == BodyEvents \cup HeaderEvents

IterationOrders ==
    {SortedNames, <<"user", "src_ip", "src", "event_type", "event_sub_type">>}

\* the messages Format can return for the same Formatter and event, the
\* runtime choosing the order of every range over a map
FormatOutputs(fieldMappings, orderedFields, fieldsMap) ==
    {Format(fieldMappings, orderedFields, fieldsMap, mapKeys, eventKeys) :
        mapKeys \in IterationOrders, eventKeys \in IterationOrders}

\* cefFormatter.Format(fieldsMap) on a Formatter built with the given rename
\* table and ordered fields, once
FormatCall ==
    /\ pc = "main"
    /\ hist.call = NoCall
    /\ \E fm \in UnitMappings, of \in UnitOrderedFields, e \in UnitEvents,
          mapKeys, eventKeys \in IterationOrders :
          hist' = [hist EXCEPT !.call =
                     [op |-> "Format", fieldMappings |-> fm, orderedFields |-> of,
                      fieldsMap |-> e, header |-> Header(e),
                      parts |-> Format(fm, of, e, mapKeys, eventKeys),
                      outputs |-> FormatOutputs(fm, of, e)]]
    /\ UNCHANGED <<cfg, pc, file, marker, conn, reconnectCount, sinceReconnect, stats,
                   backoffDelay, timer, ctxDone, tick, tickerC, sigChan, cyc, result>>

\* syslogWriter.Reconnect() on the Writer built at start-up, t seconds after
\* the call before it (or after start-up), against a server that takes the
\* connection or not
ReconnectCall ==
    /\ pc = "main"
    /\ \E t \in 0..ReconnectDelay, dialOK \in BOOLEAN :
          LET since == After(sinceReconnect, t)
              r == Reconnect(conn, reconnectCount, since, dialOK)
          IN  /\ conn' = r.conn
              /\ reconnectCount' = r.reconnectCount
              /\ sinceReconnect' = r.sinceReconnect
              /\ hist' = [hist EXCEPT !.call =
                            [op |-> "Reconnect",
                             prev |-> IF hist.call.op = "Reconnect"
                                      THEN hist.call.res ELSE "none",
                             gap |-> t, since |-> since, priorConn |-> conn,
                             priorCount |-> reconnectCount,
                             res |-> r.res, err |-> r.err, dialed |-> r.dialed,
                             closed |-> r.closed]]
    /\ UNCHANGED <<cfg, pc, file, marker, stats, backoffDelay, timer, ctxDone, tick,
                   tickerC, sigChan, cyc, result>>

\* syslogWriter.Write(message) on the Writer built at start-up, right after
\* the call before it, against a network that takes the message or not
WriteCall ==
    /\ pc = "main"
    /\ \E netOK \in BOOLEAN :
          hist' = [hist EXCEPT !.call =
                     [op |-> "Write", ok |-> Write(conn, netOK), priorConn |-> conn]]
    /\ UNCHANGED <<cfg, pc, file, marker, conn, reconnectCount, sinceReconnect, stats,
                   backoffDelay, timer, ctxDone, tick, tickerC, sigChan, cyc, result>>

\* the characters of the values sanitizeValue is called with: the five it
\* escapes, the letters of its escapes \n and \r, and an ordinary one
SanitizeChars == {"\\", "=", "|", "\n", "\r", "n", "r", "a"}

SanitizeInputs == UNION {[1..n -> SanitizeChars] : n \in 0..MaxSanitizeLen}

\* sanitizeValue(value), once
SanitizeCall ==
    /\ pc = "main"
    /\ hist.call = NoCall
    /\ \E v \in SanitizeInputs :
          hist' = [hist EXCEPT !.call =
                     [op |-> "sanitizeValue", value |-> v, r |-> sanitizeValue(v)]]
    /\ UNCHANGED <<cfg, pc, file, marker, conn, reconnectCount, sinceReconnect, stats,
                   backoffDelay, timer, ctxDone, tick, tickerC, sigChan, cyc, result>>

(***************************************************************************)
(* Specifications.                                                         *)
(***************************************************************************)
\* a configuration Validate rejects (max_pagination_requests 0)
RejectedConfig == Config(0, ReadmeRetryAttempts, ReadmeMaxBackoff, ReadmeMaxMsgSize)

\* small ceilings; retry_attempts 0; max_backoff_delay_seconds left out (0);
\* a negative max_message_size
SmallConfigs ==
    {RejectedConfig,
     Config(1, 2, 4, ReadmeMaxMsgSize),
     Config(2, 2, 4, ReadmeMaxMsgSize),
     Config(2, 0, 4, ReadmeMaxMsgSize),
     Config(2, 1, 0, -1),
     Config(2, 1, 4, -1)}

\* main before the loop
Startup == ValidateFails \/ Preflight \/ InitComponents

\* the steps of a cycle in a given environment
Cycle(resps, net, disk) == FetchPage(resps) \/ ForwardRecord(net) \/ MarkerStep(disk)

\* the ticker's case of main's select, with ticks that fire while main
\* waits in the select
Ticker(cap) ==
    TickFires({"select"}) \/ TickCycle(cap) \/ AfterTickSuccess \/ AfterTickFailure

\* a terminating signal that arrives while main waits in the select
Terminate == SendSignal({"term"}, {"select"}) \/ Shutdown

Init == InitWith(SmallConfigs)

\* the program as main runs it while no signal arrives: one run of the
\* process
Next ==
    \/ Startup
    \/ StartInitialCycle
    \/ Cycle(Responses, BOOLEAN, DiskOutcomes)
    \/ AfterInitialCycle
    \/ Ticker(MaxCycles)

Spec == Init /\ [][Next]_vars

\* a cycle runs on main's goroutine and each call it makes returns: a cycle
\* that can take a step takes one
SpecFair == Spec /\ WF_vars(Cycle(Responses, BOOLEAN, DiskOutcomes))

\* the cycle run at start-up with its requests counted, retry_attempts 0
\* and 2
RequestConfigs ==
    {RejectedConfig, Config(2, 2, 4, ReadmeMaxMsgSize), Config(2, 0, 4, ReadmeMaxMsgSize)}

InitRequests == InitWith(RequestConfigs)

NextRequests ==
    \/ Startup
    \/ StartInitialCycle
    \/ CountedFetchPage(Responses)
    \/ ForwardRecord(BOOLEAN)
    \/ MarkerStep(DiskOutcomes)
    \/ AfterInitialCycle

SpecRequests == InitRequests /\ [][NextRequests]_vars

\* the process is started again after it ended
RestartConfigs == {RejectedConfig, Config(1, 1, 4, ReadmeMaxMsgSize), Config(1, 1, 4, -1)}

InitRestart == InitWith(RestartConfigs)

NextRestart == Next \/ Terminate \/ Restart

SpecRestart == InitRestart /\ [][NextRestart]_vars

\* the documented configuration, the cycle run at start-up, a sink that
\* takes every write and a server that answers every request
ReadmeConfigs ==
    {RejectedConfig,
     Config(ReadmeMaxPagination, ReadmeRetryAttempts, ReadmeMaxBackoff, ReadmeMaxMsgSize)}

ReadmeResponses == [marker : ApiMarkers \cup {NullMarker}, n : {0, 1}]

InitReadme == InitWith(ReadmeConfigs)

NextReadme ==
    \/ Startup
    \/ StartInitialCycle
    \/ Cycle(ReadmeResponses, {TRUE}, {<<TRUE, "ok">>, <<TRUE, "openfail">>})
    \/ AfterInitialCycle

SpecReadme == InitReadme /\ [][NextReadme]_vars

\* many cycles of one page each, with the documented backoff ceiling and
\* with max_backoff_delay_seconds left out (0); every cycle that has a record
\* to forward panics on the negative max_message_size
BackoffConfigs ==
    {RejectedConfig, Config(1, 1, ReadmeMaxBackoff, -1), Config(1, 1, 0, -1)}

InitBackoff == InitWith(BackoffConfigs)

NextLong ==
    \/ Startup
    \/ StartInitialCycle
    \/ Cycle(Responses, BOOLEAN, DiskOutcomes)
    \/ AfterInitialCycle
    \/ Ticker(MaxBackoffCycles)

SpecBackoff == InitBackoff /\ [][NextLong]_vars

\* the Processor under a caller that cancels the context while a cycle runs
CtxConfigs == {RejectedConfig, Config(2, 1, 4, ReadmeMaxMsgSize), Config(2, 1, 4, -1)}

InitCtx == InitWith(CtxConfigs)

NextCtx == Next \/ CancelCtx \/ ObserveCancel \/ CtxDoneCase

SpecCtx == InitCtx /\ [][NextCtx]_vars

\* the documented pagination ceiling against a sink that may refuse any
\* write and any dial, and a server whose pages hold one record or none
SinkConfigs ==
    {RejectedConfig, Config(ReadmeMaxPagination, 1, ReadmeMaxBackoff, ReadmeMaxMsgSize)}

SinkResponses == [marker : {"m1"}, n : {0, 1}]

InitSink == InitWith(SinkConfigs)

NextSink ==
    \/ Startup
    \/ StartInitialCycle
    \/ Cycle(SinkResponses, BOOLEAN, {<<TRUE, "ok">>})
    \/ AfterInitialCycle
    \/ TickFires({"select"})
    \/ TickCycle(MaxCycles)
    \/ AfterTickSuccess

SpecSink == InitSink /\ [][NextSink]_vars

\* ticks and signals that arrive at any time while the process runs, with a
\* server and a sink that answer every call
SignalConfigs ==
    {RejectedConfig, Config(1, 1, 4, ReadmeMaxMsgSize), Config(2, 1, 4, ReadmeMaxMsgSize),
     Config(1, 1, 4, -1)}

SignalResponses == [marker : {"m1"}, n : {0, 1}]

InitSignals == InitWith(SignalConfigs)

\* the steps of the process
MainSteps ==
    \/ Startup
    \/ StartInitialCycle
    \/ Cycle(SignalResponses, {TRUE}, {<<TRUE, "ok">>})
    \/ AfterInitialCycle
    \/ TickCycle(MaxCycles)
    \/ AfterTickSuccess
    \/ AfterTickFailure
    \/ Reload
    \/ Shutdown

\* the steps of the runtime's timer and of whoever sends signals
Arrivals ==
    \/ TickFires(RunningPcs)
    \/ SendSignal({"hup", "term"}, RunningPcs)

NextSignals == MainSteps \/ Arrivals

SpecSignals == InitSignals /\ [][NextSignals]_vars

\* main's goroutine is scheduled as long as it can take a step
SpecSignalsFair == SpecSignals /\ WF_vars(MainSteps)

\* the components called on their own after start-up
UnitConfigs == {RejectedConfig, Config(1, 1, 4, ReadmeMaxMsgSize)}

InitUnits == InitWith(UnitConfigs)

NextUnits ==
    \/ Startup
    \/ UpdateCall
    \/ FetchWithRetryCall
    \/ FormatCall
    \/ SanitizeCall
    \/ FetchEventsPageCall

SpecUnits == InitUnits /\ [][NextUnits]_vars

\* the Writer called on its own after start-up
NextWriter == Startup \/ ReconnectCall \/ WriteCall

SpecWriter == InitUnits /\ [][NextWriter]_vars

(***************************************************************************)
(* Properties.                                                             *)
(***************************************************************************)
Min(a, b) == IF a < b THEN a ELSE b

RECURSIVE Pow2(_)
Pow2(k) == IF k = 0 THEN 1 ELSE 2 * Pow2(k - 1)

\* C1 (as claimed): the persisted marker survives a restart.  Once a cursor
\* has been durably saved, every completed start-up (pre-flight checks, then
\* marker.New) leaves Get() equal to the cursor saved last.
C1_MarkerSurvivesRestart ==
    (pc = "main" /\ hist.durable # "") => marker = hist.durable

\* C2: within ProcessEvents the Marker Manager's value changes only to the
\* current page's candidate marker, only when every record of that page was
\* written without error, and never for a page whose forwardEvents call
\* returned an error.
C2_NoAdvanceWithoutDelivery ==
    [][(InCycle /\ marker' # marker) =>
          /\ marker' = cyc.page.NewMarker
          /\ hist.c.written = cyc.page.Events
          /\ hist.c.fwd # "err"]_vars

\* C2 witness: in a cycle where an earlier page's forwardEvents failed, a
\* later page was delivered in full and advanced the marker
C2_Witness ==
    /\ hist.c.updated
    /\ hist.c.fwdFailed
    /\ hist.c.fwd = "ok"
    /\ hist.c.written = 2
    /\ marker = cyc.page.NewMarker

\* C3: every value the Marker Manager takes during a cycle is a non-empty
\* candidate marker returned by a page fetched in that cycle, and a page's
\* update comes only after the forward step of that page has been taken.
C3_MarkerFromApiAfterForward ==
    [][(InCycle /\ marker' # marker) =>
          /\ marker' \in hist.c.returned \cap ApiMarkers
          /\ pc = "marker"
          /\ (cyc.page.Events > 0 => hist.c.fwd # "none")]_vars

\* C3 witness: the second page of a cycle moved the marker from the first
\* page's cursor to its own, after its records had been forwarded
C3_Witness ==
    /\ hist.c.updated
    /\ hist.c.fetches = 2
    /\ hist.c.returned = ApiMarkers
    /\ hist.c.fwd = "ok"
    /\ marker \in hist.c.returned

\* C4: in any cycle the number of FetchWithRetry calls is at most the
\* configured MaxPagination.
C4_FetchesBounded ==
    hist.c.fetches <= cfg.MaxPagination

\* C4 witness: the ceiling was reached in a cycle with a forwarding failure
C4_Witness ==
    /\ hist.c.fetches = cfg.MaxPagination
    /\ cfg.MaxPagination = 2
    /\ hist.c.fwdFailed

\* C5: with pagination ceiling 10, a cycle in which every fetch gave a
\* non-empty page with a non-empty marker and HasMore and every record was
\* delivered makes exactly 10 fetches and then ends with success; before
\* that it has made fewer than 10 and goes on.
C5_ExactlyTenFetches ==
    (cfg.MaxPagination = ReadmeMaxPagination /\ hist.c.allMore) =>
        /\ (pc = "returned" => hist.c.fetches = ReadmeMaxPagination /\ result = "ok")
        /\ (pc = "page" => hist.c.fetches < ReadmeMaxPagination)
        /\ (InCycle => hist.c.fetches <= ReadmeMaxPagination)

\* C5 witness: such a cycle has ended
C5_Witness ==
    /\ pc = "returned"
    /\ hist.c.allMore
    /\ hist.c.fetches = ReadmeMaxPagination
    /\ stats.TotalEventsForwarded = ReadmeMaxPagination
    /\ result = "ok"

\* C6 (as claimed): for every configuration Validate accepts, the stored
\* backoff delay and the delay given to the timer on failure lie between the
\* base value of 1 second and the configured ceiling MaxBackoffDelay.
C6_BackoffWithinBounds ==
    (Running /\ Validate(cfg)) =>
        /\ BaseBackoff <= backoffDelay
        /\ backoffDelay <= cfg.MaxBackoffDelay
        /\ (timer # cfg.FetchInterval =>
               BaseBackoff <= timer /\ timer <= cfg.MaxBackoffDelay)

\* C7 (as claimed): after k consecutive failing cycles the stored delay is
\* min(2^k, ceiling), counting every cycle, the one run at start-up too.
C7_DoublesPerFailedCycle ==
    (pc = "select" /\ cfg.MaxBackoffDelay = ReadmeMaxBackoff) =>
        backoffDelay = Min(Pow2(hist.consecFail), cfg.MaxBackoffDelay)

\* C7 (amended): after k consecutive failing ticker cycles the stored delay
\* is min(2^k, ceiling) and the ticker runs at the delay before the last
\* doubling; a failure of the cycle run at start-up leaves the delay at 1;
\* after a successful cycle the delay is 1 and the ticker runs at the base
\* interval.
C7_DoublesPerFailedTick ==
    (pc = "select" /\ cfg.MaxBackoffDelay = ReadmeMaxBackoff) =>
        /\ backoffDelay = Min(Pow2(hist.tickFail), cfg.MaxBackoffDelay)
        /\ (hist.tickFail = 0 => timer = cfg.FetchInterval)
        /\ (hist.tickFail > 0 =>
               timer = Min(Pow2(hist.tickFail - 1), cfg.MaxBackoffDelay))

\* C7 witness: the delay has reached the ceiling of 300 after nine failed
\* ticker cycles in a row
C7_Witness ==
    /\ pc = "select"
    /\ hist.tickFail = 9
    /\ backoffDelay = ReadmeMaxBackoff
    /\ timer = 256

\* C8 (as claimed): a cycle in which a page fetch failed after all retry
\* attempts returns failure to the scheduler.
C8_FetchFailureFailsCycle ==
    (pc = "returned" /\ hist.c.fetchFailed) => result = "fail"

\* C9 (as claimed): after a forwarding failure no further page is fetched in
\* the cycle, and the cycle returns failure to the scheduler.
C9_ForwardFailureStopsCycle ==
    hist.c.fwdFailed =>
        /\ ~hist.c.fetchAfterFwdFail
        /\ (pc = "returned" => result = "fail")

\* C10 (as claimed): a cycle that ends on the cancellation seen at the head
\* of a page iteration does not count as a failure: the failed-request
\* counter stays, and the scheduler does not grow the backoff delay for it.
C10_CancelIsNotFailure ==
    [][/\ (pc = "page" /\ ctxDone /\ pc' = "returned") =>
             stats'.FailedAPIRequests = stats.FailedAPIRequests
       /\ (pc = "returned" /\ hist.c.cancelled /\ pc' = "select") =>
             backoffDelay' <= backoffDelay]_vars

\* C11 (as claimed): when a cycle has ended, its events-processed total and
\* the increase of Stats.TotalEventsForwarded over the cycle both equal the
\* number of records written in the cycle, the records written before a
\* forwarding failure cut a batch short included.
C11_PartialCountsKept ==
    pc = "returned" =>
        /\ cyc.totalEventsProcessed = hist.c.delivered
        /\ stats.TotalEventsForwarded = hist.c.forwardedBefore + hist.c.delivered

\* C12 (as claimed): when a cycle has ended, the marker in memory and the
\* marker file both hold the cursor persisted last, also after a write of the
\* marker file failed during the cycle.
C12_MarkerIsLastPersisted ==
    pc = "returned" =>
        /\ file = marker
        /\ (hist.durable # "" => marker = hist.durable)

\* C13: Manager.Update(m) touches the storage exactly when m is non-empty
\* and differs from the value in memory; the value in memory becomes m
\* exactly when the file was written; when the storage fails an error is
\* returned and Get() still gives the prior value; a call that does not
\* touch the storage returns no error and leaves the value as it was.
C13_UpdateContract ==
    hist.call.op = "Update" =>
        /\ hist.call.tried <=> (hist.call.arg # "" /\ hist.call.arg # hist.call.prior)
        /\ hist.call.wrote => (hist.call.tried /\ ~hist.call.err /\ marker = hist.call.arg)
        /\ (hist.call.tried /\ ~hist.call.wrote) =>
               (hist.call.err /\ marker = hist.call.prior)
        /\ ~hist.call.tried => (~hist.call.err /\ marker = hist.call.prior)

\* C13 witness: an Update with a new cursor failed in the storage and left
\* the cursor saved before in memory
C13_Witness ==
    /\ hist.call.op = "Update"
    /\ hist.call.tried
    /\ hist.call.err
    /\ hist.call.prior \in ApiMarkers
    /\ hist.call.arg \in ApiMarkers
    /\ marker = hist.call.prior

\* C14 (as claimed): Reconnect makes no connection attempt within the
\* cooldown of ReconnectDelay seconds after its previous connection attempt,
\* whether that attempt succeeded or failed.
C14_NoDialInsideCooldown ==
    hist.c.rc \in Dialed => hist.c.gap >= ReconnectDelay

\* C15: once Writer.reconnectCount has reached the ceiling of 10, it stays
\* there as long as the process lives, and no step makes a connection
\* attempt through Reconnect any more.
C15_CeilingIsAbsorbing ==
    [][(reconnectCount = MaxReconnects /\ Running /\ pc' \in {"page", "forward", "marker",
                                                              "returned", "select"}) =>
          /\ reconnectCount' = MaxReconnects
          /\ hist'.c.rc \notin Dialed]_vars

\* C15 witness: in the cycle after the one that reached the ceiling, a
\* Reconnect call was refused for the ceiling
C15_Witness ==
    /\ reconnectCount = MaxReconnects
    /\ hist.c.rc = "maxed"
    /\ stats.TotalAPIRequests = 2
    /\ conn = "closed"

C17_FailedCyclesNeverEndTheProcess ==
    pc # "crashed"

\* C18: at most one cycle is in progress at any time, however ticks arrive:
\* a tick that fires during a cycle waits in ticker.C (or is dropped) and
\* starts no second cycle; within the cycle no page is fetched while the
\* page before it is still being forwarded or its marker still being stored.
C18_OneCycleAtATime ==
    /\ hist.active <= 1
    /\ (pc \in {"page", "forward", "marker", "returned"} <=> hist.active = 1)
    /\ (pc \in {"forward", "marker"} => hist.c.fetches = cyc.paginationCount)
    /\ (pc = "forward" => cyc.forwardedCount < cyc.page.Events)

\* C18 witness: a tick has fired while a ticker cycle was forwarding, and it
\* waits in the channel
C18_Witness ==
    /\ pc = "forward"
    /\ tick
    /\ tickerC = 1
    /\ hist.active = 1

\* C19 (as claimed): whenever a terminating signal was sent to the running
\* service, the service eventually stops: main leaves its loop after the
\* cycle in progress, logs the final statistics and closes the syslog
\* connection; also with SIGHUP and ticks arriving around the same time.
C19_TermSignalStopsService ==
    (hist.termSent /\ Running) ~> (pc = "exit" /\ conn = "closed")

\* C20: every event field that is no source key of the rename table and
\* whose value is non-empty appears in the extension body under its own
\* name with its sanitized value, exactly once: it is neither dropped nor
\* overwritten by another field.
C20_UnmappedFieldsKept ==
    hist.call.op = "Format" =>
        \A k \in hist.call.fieldsMap.has :
            (~isMappedField(k, hist.call.fieldMappings)
                  /\ hist.call.fieldsMap.val[k] # <<>>) =>
                /\ \E i \in 1..Len(hist.call.parts) :
                      hist.call.parts[i] = <<k, sanitizeValue(hist.call.fieldsMap.val[k])>>
                /\ Cardinality({i \in 1..Len(hist.call.parts) :
                                   hist.call.parts[i][1] = k}) = 1

\* C20 witness: the event has src_ip, renamed to src, and a field src of its
\* own that needs escaping; the body carries the event's src, escaped
C20_Witness ==
    /\ hist.call.op = "Format"
    /\ hist.call.fieldMappings["src_ip"] = "src"
    /\ hist.call.fieldsMap.has = {"src", "src_ip"}
    /\ hist.call.fieldsMap.val["src_ip"] = <<"a">>
    /\ hist.call.fieldsMap.val["src"] = <<"=">>
    /\ hist.call.parts = <<<<"src", <<"\\", "=">>>>>>

\* C21 (as claimed): for a fixed event, rename table and ordered-field list
\* Format returns one and the same message whatever the iteration order of
\* the event map and of the rename table, also when two source fields are
\* renamed to the same wire field.
C21_FormatIsDeterministic ==
    hist.call.op = "Format" => hist.call.outputs = {hist.call.parts}

\* how a reader of the wire format takes a character that follows a
\* backslash
Unescaped(c) == CASE c = "n" -> "\n" [] c = "r" -> "\r" [] OTHER -> c

\* un-escaping, left to right: a backslash and the character after it stand
\* for one character
RECURSIVE unescape(_)
unescape(s) ==
    IF s = <<>> THEN <<>>
    ELSE IF Head(s) = "\\" /\ Len(s) >= 2
    THEN <<Unescaped(s[2])>> \o unescape(SubSeq(s, 3, Len(s)))
    ELSE <<Head(s)>> \o unescape(Tail(s))

\* C22: sanitizeValue can be undone: un-escaping sanitizeValue(v) gives v
\* back, for every v over backslash, =, |, CR, LF and ordinary characters,
\* and no other value has the same sanitized form.
C22_SanitizeRoundTrip ==
    hist.call.op = "sanitizeValue" =>
        /\ unescape(hist.call.r) = hist.call.value
        /\ \A w \in SanitizeInputs :
              sanitizeValue(w) = hist.call.r => w = hist.call.value

\* C22 witness: a value of = and | was sanitized to \=\|
C22_Witness ==
    /\ hist.call.op = "sanitizeValue"
    /\ hist.call.value = <<"=", "|">>
    /\ hist.call.r = <<"\\", "=", "\\", "|">>

\* C23 (as claimed): a record that was written to the syslog sink is not
\* written again after a later page fetch; here, for the fetches of one
\* cycle.
C23_NoRecordWrittenTwice ==
    [][(pc = "forward" /\ hist'.c.delivered = hist.c.delivered + 1) =>
          Event(cyc.currentMarker, cyc.forwardedCount + 1) \notin hist.c.sent]_vars

C25_SecondCallIsRateLimited ==
    (hist.call.op = "Reconnect" /\ hist.call.prev = "ok"
         /\ hist.call.gap < ReconnectDelay) =>
        /\ hist.call.res = "limited"
        /\ hist.call.err
        /\ ~hist.call.dialed
        /\ ~hist.call.closed
        /\ conn = hist.call.priorConn
        /\ conn = "open"
        /\ reconnectCount = hist.call.priorCount
        /\ reconnectCount = 0
        /\ sinceReconnect = hist.call.gap

\* C25 witness: a call 4 seconds after a successful one was refused
C25_Witness ==
    /\ hist.call.op = "Reconnect"
    /\ hist.call.prev = "ok"
    /\ hist.call.gap = ReconnectDelay - 1
    /\ hist.call.res = "limited"
    /\ conn = "open"

\* C26: a Reconnect call that is not refused closes the connection the
\* Writer holds and makes one connection attempt; when the attempt succeeds
\* the failure counter is 0, the cooldown clock starts at the present and no
\* error is returned; when it fails the counter is one more than before and
\* an error is returned.  A refused call does neither.
C26_ReconnectContract ==
    hist.call.op = "Reconnect" =>
        /\ hist.call.res \in Refused \cup Dialed
        /\ hist.call.res \in Refused =>
              (hist.call.err /\ ~hist.call.dialed /\ ~hist.call.closed)
        /\ hist.call.res \in Dialed => (hist.call.dialed /\ hist.call.closed)
        /\ hist.call.res = "ok" =>
              /\ ~hist.call.err
              /\ conn = "open"
              /\ reconnectCount = 0
              /\ sinceReconnect = 0
        /\ hist.call.res = "failed" =>
              /\ hist.call.err
              /\ conn = "closed"
              /\ reconnectCount = hist.call.priorCount + 1

\* C26 witness: the third connection attempt in a row has failed
C26_Witness ==
    /\ hist.call.op = "Reconnect"
    /\ hist.call.res = "failed"
    /\ hist.call.prev = "failed"
    /\ hist.call.priorCount = 2
    /\ reconnectCount = 3

\* C27: for each record forwardEvents handles: when the first Write
\* succeeds there is no Reconnect and no second Write; when it fails there
\* is exactly one Reconnect; the Write is retried, once, exactly when that
\* Reconnect succeeded; when the Reconnect or the retried Write fails, an
\* error is returned with the number of records written so far, and no
\* further record of the batch is handled.  So a record takes at most two
\* writes and one reconnect.
C27_OneReconnectOneRetry ==
    hist.c.io.writes > 0 =>
        /\ hist.c.io.writes \in 1..2
        /\ hist.c.io.reconnects \in 0..1
        /\ hist.c.io.firstOK =>
              (hist.c.io.writes = 1 /\ hist.c.io.reconnects = 0 /\ ~hist.c.io.err)
        /\ ~hist.c.io.firstOK => (hist.c.io.reconnects = 1 /\ hist.c.rc # "none")
        /\ hist.c.io.writes = 2 <=> hist.c.rc = "ok"
        /\ hist.c.rc \in Refused \cup {"failed"} => hist.c.io.err
        /\ hist.c.io.err =>
              /\ hist.c.fwd = "err"
              /\ cyc.forwardedCount = hist.c.written
              /\ hist.c.written < cyc.page.Events
              /\ pc # "forward"
        /\ ~hist.c.io.err => hist.c.written = cyc.forwardedCount

\* C27 witness: the first record of a page of two was written; the second
\* one's Write failed, the Reconnect succeeded and the retried Write failed:
\* the batch ended with an error and a count of 1
C27_Witness ==
    /\ cyc.page.Events = 2
    /\ hist.c.written = 1
    /\ ~hist.c.io.firstOK
    /\ hist.c.rc = "ok"
    /\ hist.c.io.writes = 2
    /\ hist.c.io.err
    /\ cyc.forwardedCount = 1

\* C28 (as claimed): a fetched page has HasMore exactly when it has at
\* least one event and a non-empty candidate marker, and a cycle fetches no
\* further page after a page with HasMore false.
C28_HasMoreEndsPagination ==
    [][pc = "page" =>
          /\ cyc'.paginationCount = cyc.paginationCount + 1 =>
                (cyc'.page.HasMore <=>
                     (cyc'.page.Events > 0 /\ cyc'.page.NewMarker # ""))
          /\ (hist'.c.fetches = hist.c.fetches + 1 /\ hist.c.fetches > 0) =>
                cyc.page.HasMore]_vars

\* <<i, j>> comes before <<k, l>> in the response
Before(a, b) == a[1] < b[1] \/ (a[1] = b[1] /\ a[2] < b[2])

\* C29: in a response with status 200 and no GraphQL errors, the records
\* returned are those of the accounts without an errorString, all of them,
\* each once and in the order of the response; the records of an account
\* with an errorString are left out; the call returns no error and the
\* page's candidate marker is the marker of the response.
C29_AccountErrorsTolerated ==
    hist.call.op = "FetchEventsPage" =>
        /\ {hist.call.events[k] : k \in 1..Len(hist.call.events)} =
              {e \in (1..Len(hist.call.accounts)) \X (1..MaxAccountRecords) :
                   /\ hist.call.accounts[e[1]].ErrorString = ""
                   /\ e[2] <= hist.call.accounts[e[1]].Records}
        /\ \A k, l \in 1..Len(hist.call.events) :
              k < l => Before(hist.call.events[k], hist.call.events[l])
        /\ ~hist.call.err
        /\ hist.call.page.Events = Len(hist.call.events)
        /\ hist.call.page.NewMarker =
              (IF hist.call.marker = NullMarker THEN "" ELSE hist.call.marker)

\* C29 witness: the first account reports an error and has a record, the
\* second has two records: the page holds the second account's two
C29_Witness ==
    /\ hist.call.op = "FetchEventsPage"
    /\ Len(hist.call.accounts) = 2
    /\ hist.call.accounts[1] = [ErrorString |-> "quota", Records |-> 1]
    /\ hist.call.accounts[2] = [ErrorString |-> "", Records |-> 2]
    /\ hist.call.events = <<<<2, 1>>, <<2, 2>>>>
    /\ hist.call.marker = "m1"
    /\ hist.call.page.NewMarker = "m1"
    /\ hist.call.page.HasMore

\* C30 (as claimed): a panic raised during a cycle is recovered by
\* ProcessWithRecovery: the cycle returns failure, the failed-request counter
\* goes up by one for it, once, and the process goes on to wait for the next
\* tick.
C30_PanicIsRecovered ==
    [][/\ (pc = "forward" /\ hist'.c.panicked) =>
             /\ pc' = "returned"
             /\ result' = "fail"
             /\ stats'.FailedAPIRequests = stats.FailedAPIRequests + 1
       /\ (pc = "returned" /\ hist.c.panicked /\ pc' # pc) =>
             /\ pc' = "select"
             /\ stats'.FailedAPIRequests = stats.FailedAPIRequests]_vars

\* C31 (as claimed): once a terminating signal has been sent while a cycle
\* is in flight, the cycle starts no page fetch after the page it is at.
C31_SignalStopsPagination ==
    [][(pc = "page" /\ hist.c.term /\ hist.c.fetches > 0) =>
          hist'.c.fetches = hist.c.fetches]_vars

\* the place of a name in sort.Strings' order, and the place of its first
\* occurrence in a list that names it
Rank(name) == CHOOSE i \in 1..Len(SortedNames) : SortedNames[i] = name
FirstIn(list, name) ==
    CHOOSE i \in 1..Len(list) :
        list[i] = name /\ \A j \in 1..(i - 1) : list[j] # name

\* the names of a list
Named(list) == {list[i] : i \in 1..Len(list)}

\* C32: the extension body holds every wire field that got a value, each
\* once; the fields named in the ordered-field list come first, in the order
\* of the list (of the first mention, when the list repeats a name); the
\* other fields follow, in lexicographic order of their names.
C32_OrderedThenSorted ==
    hist.call.op = "Format" =>
        LET parts == hist.call.parts
            fm == hist.call.fieldMappings
            e == hist.call.fieldsMap
            ordered == Named(hist.call.orderedFields)
            valued == {k \in e.has : e.val[k] # <<>>}
        IN  /\ {parts[i][1] : i \in 1..Len(parts)} =
                  {fm[k] : k \in {x \in valued : isMappedField(x, fm)}}
                      \cup {k \in valued : ~isMappedField(k, fm)}
            /\ \A i, j \in 1..Len(parts) :
                  i < j =>
                      LET a == parts[i][1]
                          b == parts[j][1]
                      IN  /\ a # b
                          /\ ~(a \notin ordered /\ b \in ordered)
                          /\ (a \in ordered /\ b \in ordered) =>
                                FirstIn(hist.call.orderedFields, a)
                                    < FirstIn(hist.call.orderedFields, b)
                          /\ (a \notin ordered /\ b \notin ordered) =>
                                Rank(a) < Rank(b)

\* C32 witness: the list names user, src and user again; the event has all
\* three fields: the body is user, src, then src_ip
C32_Witness ==
    /\ hist.call.op = "Format"
    /\ hist.call.orderedFields = <<"user", "src", "user">>
    /\ hist.call.fieldMappings["user"] = "user"
    /\ hist.call.fieldsMap.has = {"src", "src_ip", "user"}
    /\ hist.call.parts = <<<<"user", <<"a">>>>, <<"src", <<"a">>>>, <<"src_ip", <<"a">>>>>>

\* C33: the signature is the event's event_type, or "Unknown" when the
\* field is absent or empty; the severity is the table's value for exactly
\* that signature (Threat 10, Info 2, Debug 1) and 5 for a signature the
\* table does not have, one that differs only in case included.  For the
\* fields {event_type: Threat, event_sub_type: Login, src_ip: 1.2.3.4}, the
\* rename table {src_ip: src} and the ordered fields [src] the severity is
\* 10, the signature Threat, and the body begins with src=1.2.3.4.
C33_HeaderDerivation ==
    hist.call.op = "Format" =>
        LET e == hist.call.fieldsMap
            h == hist.call.header
            typed == "event_type" \in e.has /\ e.val["event_type"] # <<>>
        IN  /\ h.signature = (IF typed THEN e.val["event_type"] ELSE <<"Unknown">>)
            /\ h.signature = <<"Threat">> => h.severity = 10
            /\ h.signature = <<"Info">> => h.severity = 2
            /\ h.signature = <<"Debug">> => h.severity = 1
            /\ h.signature \in {<<"threat">>, <<"Login">>, <<"Unknown">>} => h.severity = 5
            /\ (/\ e.has = {"event_type", "event_sub_type", "src_ip"}
                /\ e.val["event_type"] = <<"Threat">>
                /\ hist.call.fieldMappings["src_ip"] = "src"
                /\ hist.call.fieldMappings["user"] = NoTarget
                /\ hist.call.orderedFields = <<"src">>) =>
                  /\ h.severity = 10
                  /\ h.signature = <<"Threat">>
                  /\ h.name = <<"Threat", " - ", "Login">>
                  /\ hist.call.parts[1] = <<"src", <<"1.2.3.4">>>>

\* C33 witness: the call of the example, with its whole body
C33_Witness ==
    /\ hist.call.op = "Format"
    /\ hist.call.fieldsMap.has = {"event_type", "event_sub_type", "src_ip"}
    /\ hist.call.fieldsMap.val["event_type"] = <<"Threat">>
    /\ hist.call.fieldMappings["src_ip"] = "src"
    /\ hist.call.fieldMappings["user"] = NoTarget
    /\ hist.call.orderedFields = <<"src">>
    /\ hist.call.header.severity = 10
    /\ hist.call.parts = <<<<"src", <<"1.2.3.4">>>>, <<"event_sub_type", <<"Login">>>>,
                            <<"event_type", <<"Threat">>>>>>

\* C34: every cycle terminates: whatever the server, the sink and the disk
\* do, a cycle that has been started returns, as long as each of its calls
\* returns.
C34_CycleTerminates == InCycle ~> pc = "returned"

\* C34 witness: a cycle has returned after as many pages as the ceiling
\* allows, a forwarding failure and a failed marker write among them
C34_Witness ==
    /\ pc = "returned"
    /\ cyc.paginationCount = cfg.MaxPagination
    /\ cfg.MaxPagination > 1
    /\ hist.c.fwdFailed
    /\ cyc.currentMarker # marker

\* C35: when the Update of a page's new marker fails, the cycle's cursor
\* is the new marker all the same while Manager.Get() returns the old one;
\* as long as no later Update succeeds, each further fetch of the cycle is
\* issued with the unsaved cursor, which Get() does not return; and every
\* cycle starts from the value Get() returns.
C35_CursorAdvancesWithoutSave ==
    [][/\ (/\ pc = "marker"
            /\ cyc.page.NewMarker \notin {"", cyc.currentMarker, marker}
            /\ hist'.c.unsaved # "") =>
              /\ cyc'.currentMarker = cyc.page.NewMarker
              /\ hist'.c.unsaved = cyc.page.NewMarker
              /\ marker' = marker
       /\ (pc = "page" /\ hist'.c.fetches > hist.c.fetches /\ hist.c.unsaved # "") =>
              /\ hist'.c.cursor = hist.c.unsaved
              /\ marker # hist.c.unsaved
       /\ hist'.active > hist.active => cyc'.currentMarker = marker]_vars

\* C35 witness: the second page of a cycle has been fetched with a cursor
\* whose Update failed
C35_Witness ==
    /\ pc \in {"forward", "marker"}
    /\ hist.c.fetches = 2
    /\ hist.c.unsaved # ""
    /\ hist.c.cursor = hist.c.unsaved
    /\ marker # hist.c.cursor

\* C36: a cycle makes at most MaxPagination x RetryAttempts FetchEventsPage
\* calls; with retry_attempts 0, a value Validate accepts, FetchWithRetry
\* makes no call and returns an error, and the cycle fetches no page.
C36_RequestsPerCycle ==
    Running =>
        /\ hist.c.requests <= cfg.MaxPagination * cfg.RetryAttempts
        /\ cfg.RetryAttempts = 0 =>
              /\ Validate(cfg)
              /\ hist.c.requests = 0
              /\ cyc.paginationCount = 0
              /\ hist.c.fetches > 0 => hist.c.fetchFailed /\ pc = "returned"

\* C36 witness: a cycle has made every request the bound allows, over
\* more than one page and with more than one attempt a page
C36_Witness ==
    /\ pc = "returned"
    /\ cfg.MaxPagination > 1
    /\ cfg.RetryAttempts > 1
    /\ hist.c.fetches = cfg.MaxPagination
    /\ hist.c.requests = cfg.MaxPagination * cfg.RetryAttempts

C38_OnlyReconnectChangesWriter ==
    [][/\ reconnectCount \in 0..MaxReconnects
       /\ reconnectCount' \in 0..MaxReconnects
       /\ (/\ Running /\ Running'
           /\ \/ conn' # conn
              \/ reconnectCount' # reconnectCount
              \/ sinceReconnect' < sinceReconnect) =>
             \/ pc = "main" /\ hist'.call.op = "Reconnect"
             \/ pc = "forward" /\ hist'.c.io.reconnects = 1
       /\ (pc = "main" /\ hist'.call.op = "Write") =>
             /\ conn' = conn
             /\ reconnectCount' = reconnectCount
             /\ sinceReconnect' = sinceReconnect
             /\ conn = "closed" => ~hist'.call.ok
       /\ (pc = "forward" /\ pc' # "returned" /\ hist'.c.io.reconnects = 0) =>
             /\ conn' = conn
             /\ reconnectCount' = reconnectCount
             /\ sinceReconnect' >= sinceReconnect]_vars

\* C38 witness: a Write has failed on the connection a failed dial left
\* closed, with the counter at the ceiling
C38_Witness ==
    /\ hist.call.op = "Write"
    /\ ~hist.call.ok
    /\ conn = "closed"
    /\ reconnectCount = MaxReconnects

\* C39: a Reconnect whose dial failed leaves the Writer with the connection
\* it closed; on a closed connection the Write of a record fails, and a
\* record is delivered, or the connection open again, only through a
\* Reconnect that succeeded; while the failure counter is above 0 the
\* connection is closed; and once the counter is at the ceiling of 10 the
\* connection stays closed and no record is delivered for the rest of the
\* process.
C39_NoDeliveryAfterCeiling ==
    [][(Running /\ Running') =>
         /\ (pc = "forward" /\ hist'.c.rc = "failed") => conn' = "closed"
         /\ (pc = "forward" /\ conn = "closed") =>
               /\ ~hist'.c.io.firstOK
               /\ hist'.c.delivered > hist.c.delivered => hist'.c.rc = "ok"
         /\ (conn = "closed" /\ conn' = "open") => hist'.c.rc = "ok"
         /\ reconnectCount > 0 => conn = "closed"
         /\ reconnectCount = MaxReconnects =>
               /\ conn' = "closed"
               /\ hist'.c.delivered <= hist.c.delivered
               /\ stats'.TotalEventsForwarded = stats.TotalEventsForwarded]_vars

\* C39 witness: in the cycle after the one whose tenth dial failed, the
\* records of two pages have been refused and none was delivered
C39_Witness ==
    /\ reconnectCount = MaxReconnects
    /\ conn = "closed"
    /\ stats.TotalAPIRequests = 2
    /\ hist.c.fetches = 2
    /\ hist.c.fwdFailed
    /\ hist.c.fetchAfterFwdFail
    /\ ~hist.c.io.firstOK
    /\ hist.c.io.writes = 1
    /\ hist.c.delivered = 0

====
